---- MODULE Spec2Model ----
(***************************************************************************)
(* Model of the generic trie of src/src/trie.rs (enum TNode with the      *)
(* variants Empty, Leaf and Node) and of its operations add, find,        *)
(* contains_key, longest_prefix and remove.                               *)
(*                                                                         *)
(* A TNode is a record with the fields kind, content, is_terminal and     *)
(* children.  Empty and Leaf have no children field in the source; here   *)
(* their children field is always the empty map.  An Option<T> is a       *)
(* sequence of length at most one, a key is a sequence of characters.     *)
(***************************************************************************)
EXTENDS Integers, Sequences, FiniteSets, TLC

\* ------------------------------------------------------------------ bounds
MaxLen == 3
MaxOps == 3
MaxPayload == 1
MaxKeys == 3

Chars == {"a", "b"}

RECURSIVE SeqsUpTo(_)
SeqsUpTo(n) ==
    IF n = 0 THEN {<< >>}
    ELSE LET S == SeqsUpTo(n - 1)
         IN  S \cup {Append(s, c) : s \in {x \in S : Len(x) = n - 1}, c \in Chars}

Keys == SeqsUpTo(MaxLen)

\* ------------------------------------------------------------- Option<T>
None == << >>
Some(x) == << x >>
Contents == {None} \cup {Some(p) : p \in 1..MaxPayload}

\* ----------------------------------------------------------------- TNode
NoChildren == [c \in {} |-> 0]

Empty ==
    [kind |-> "Empty", content |-> None, is_terminal |-> FALSE,
     children |-> NoChildren]

Leaf(content, is_terminal) ==
    [kind |-> "Leaf", content |-> content, is_terminal |-> is_terminal,
     children |-> NoChildren]

Node(content, children, is_terminal) ==
    [kind |-> "Node", content |-> content, is_terminal |-> is_terminal,
     children |-> children]

\* BTreeMap::insert / get_mut(..) assignment, and BTreeMap::remove
MapPut(m, k, v) == [c \in DOMAIN m \cup {k} |-> IF c = k THEN v ELSE m[c]]
MapRemove(m, k) == [c \in DOMAIN m \ {k} |-> m[c]]

\* to_leaf is only defined on Empty and Node; on a Leaf the source panics
to_leaf_panics(self) == self.kind = "Leaf"

\* to_leaf with the bug of doing what to_empty does
to_leaf_as_to_empty(self) == Empty

to_leaf(self) ==
    CASE self.kind = "Empty" -> Leaf(None, FALSE)
      [] self.kind = "Node"  -> Leaf(self.content, self.is_terminal)

\* to_node is only defined on Leaf and Empty; on a Node the source panics
to_node(self) ==
    CASE self.kind = "Leaf"  -> Node(self.content, NoChildren, self.is_terminal)
      [] self.kind = "Empty" -> Node(None, NoChildren, FALSE)

is_terminal(self) ==
    CASE self.kind = "Empty" -> FALSE
      [] self.kind = "Leaf"  -> self.is_terminal
      [] self.kind = "Node"  -> self.is_terminal

is_childless(self) ==
    CASE self.kind = "Empty" -> TRUE
      [] self.kind = "Leaf"  -> TRUE
      [] self.kind = "Node"  -> DOMAIN self.children = {}

is_empty(self) ==
    CASE self.kind = "Empty" -> TRUE
      [] self.kind = "Leaf"  -> self.content = None
      [] self.kind = "Node"  -> self.content = None /\ DOMAIN self.children = {}

\* ------------------------------------------------------------------- add
\* add_at_end with the bug of marking a Node terminal without storing cont
add_at_end_keeps_content(self, cont) ==
    IF is_terminal(self)
    THEN [ok |-> FALSE, node |-> self]
    ELSE CASE self.kind = "Node" ->
                [ok |-> TRUE, node |-> [self EXCEPT !.is_terminal = TRUE]]
           [] self.kind = "Leaf" ->
                [ok |-> TRUE, node |-> Leaf(cont, TRUE)]
           [] self.kind = "Empty" ->
                [ok |-> TRUE, node |-> Leaf(cont, TRUE)]

\* add_at_end with the bug of overwriting the payload of a terminal node
add_at_end_overwrites(self, cont) ==
    CASE self.kind = "Node" ->
            [ok |-> TRUE,
             node |-> [self EXCEPT !.content = cont, !.is_terminal = TRUE]]
      [] self.kind = "Leaf" ->
            [ok |-> TRUE, node |-> Leaf(cont, TRUE)]
      [] self.kind = "Empty" ->
            [ok |-> TRUE, node |-> Leaf(cont, TRUE)]

\* The branch `if s.is_empty()` of add: the key ends at this node.
add_at_end(self, cont) ==
    IF is_terminal(self)
    THEN [ok |-> FALSE, node |-> self]
    ELSE CASE self.kind = "Node" ->
                [ok |-> TRUE,
                 node |-> [self EXCEPT !.content = cont, !.is_terminal = TRUE]]
           [] self.kind = "Leaf" ->
                [ok |-> TRUE, node |-> Leaf(cont, TRUE)]
           [] self.kind = "Empty" ->
                [ok |-> TRUE, node |-> Leaf(cont, TRUE)]

\* add returns [ok, node]: ok is FALSE for Err(KeyExists), node is *self
\* after the call.
RECURSIVE add(_, _, _)
add(self, s, cont) ==
    IF s = << >>
    THEN add_at_end(self, cont)
    ELSE LET first_char == Head(s)
             rest       == Tail(s)
         IN  IF self.kind \in {"Empty", "Leaf"}
             THEN add(to_node(self), s, cont)
             ELSE LET child == IF first_char \in DOMAIN self.children
                               THEN self.children[first_char]
                               ELSE Empty
                      r     == add(child, rest, cont)
                  IN  [ok   |-> r.ok,
                       node |-> [self EXCEPT
                                   !.children = MapPut(@, first_char, r.node)]]

\* ------------------------------------------------ find / longest_prefix
FindResults(node, prefix) == [node |-> node, prefix |-> prefix]

LongestPrefOpts(must_be_terminal, must_match_fully) ==
    [must_be_terminal |-> must_be_terminal,
     must_match_fully |-> must_match_fully]

\* the value of new_last_terminal in the Leaf and Node cases
new_last_terminal(self, str_acc, last_terminal) ==
    IF self.is_terminal
    THEN FindResults(Some(self), str_acc)
    ELSE last_terminal

\* the result when str_left is empty (Leaf and Node cases)
lp_exhausted(self, str_acc, last_terminal, opts) ==
    IF opts.must_be_terminal
    THEN new_last_terminal(self, str_acc, last_terminal)
    ELSE FindResults(Some(self), str_acc)

\* the result of the Leaf case when str_left is not empty
lp_leaf_not_exhausted(self, str_acc, last_terminal, opts) ==
    FindResults(None, << >>)

\* the result of the Node case when the next character has no child
lp_missing_child(self, str_acc, last_terminal, opts) ==
    IF opts.must_match_fully
    THEN FindResults(None, << >>)
    ELSE FindResults(Some(self), str_acc)

RECURSIVE longest_prefix_fn(_, _, _, _, _)
longest_prefix_fn(self, str_left, str_acc, last_terminal, opts) ==
    CASE self.kind = "Empty" -> FindResults(None, << >>)
      [] self.kind = "Leaf" ->
            IF str_left = << >>
            THEN lp_exhausted(self, str_acc, last_terminal, opts)
            ELSE lp_leaf_not_exhausted(self, str_acc, last_terminal, opts)
      [] self.kind = "Node" ->
            IF str_left = << >>
            THEN lp_exhausted(self, str_acc, last_terminal, opts)
            ELSE LET first_char == Head(str_left)
                     rest       == Tail(str_left)
                 IN  IF first_char \notin DOMAIN self.children
                     THEN lp_missing_child(self, str_acc, last_terminal, opts)
                     ELSE longest_prefix_fn(
                              self.children[first_char],
                              rest,
                              Append(str_acc, first_char),
                              new_last_terminal(self, str_acc, last_terminal),
                              opts)

find(self, s, must_be_terminal) ==
    longest_prefix_fn(self, s, << >>, FindResults(None, << >>),
                      LongestPrefOpts(must_be_terminal, TRUE)).node

contains_key(self, s) == find(self, s, TRUE) # None

longest_prefix(self, s, must_be_terminal) ==
    longest_prefix_fn(self, s, << >>, FindResults(None, << >>),
                      LongestPrefOpts(must_be_terminal, FALSE)).prefix

\* -------------------------------------------------------------------- pp
\* A String is a sequence of one-character strings.

\* the characters in code point order, the order in which a BTreeMap<char, _>
\* is iterated
Alphabet == << "a", "b", "c", "d", "e" >>

DigitChars == << "0", "1", "2", "3", "4", "5", "6", "7", "8", "9" >>

\* Display of an integer payload: its decimal digits
RECURSIVE DisplayInt(_)
DisplayInt(n) ==
    IF n < 10
    THEN << DigitChars[n + 1] >>
    ELSE DisplayInt(n \div 10) \o << DigitChars[(n % 10) + 1] >>

\* impl Display for TNode
Display(self) ==
    CASE self.kind = "Empty" -> << "(", "e", "m", "p", "t", "y", ")" >>
      [] self.kind = "Leaf" ->
            IF self.content # None
            THEN << "(" >> \o DisplayInt(self.content[1]) \o << ")" >>
            ELSE << >>
      [] self.kind = "Node" ->
            IF self.content # None
            THEN << "(" >> \o DisplayInt(self.content[1]) \o << ")" >>
            ELSE << >>

\* " ".repeat(n)
Spaces(n) == [i \in 1..n |-> " "]

\* pp_leaf with the bug of leaving out the two spaces before the payload
pp_leaf_without_gap(self, print_content) ==
    (IF print_content THEN Display(self) ELSE << >>) \o << "\n" >>

\* the Leaf case of pp_fn
pp_leaf(self, print_content) ==
    (IF print_content THEN << " ", " " >> \o Display(self) ELSE << >>)
        \o << "\n" >>

\* what pp_fn pushes before the character of a child of a Node
pp_child_prefix(self, indent) ==
    IF self.is_terminal \/ Cardinality(DOMAIN self.children) > 1
    THEN (IF indent # 0 THEN << "\n" >> ELSE << >>) \o Spaces(indent)
    ELSE << >>

RECURSIVE pp_fn(_, _, _)
RECURSIVE pp_children(_, _, _, _)

\* the loop of the Node case of pp_fn, from the i-th character of the
\* alphabet on
pp_children(self, i, indent, print_content) ==
    IF i > Len(Alphabet)
    THEN << >>
    ELSE LET k == Alphabet[i]
         IN  (IF k \in DOMAIN self.children
              THEN pp_child_prefix(self, indent) \o << k >>
                     \o pp_fn(self.children[k], indent + 1, print_content)
              ELSE << >>)
             \o pp_children(self, i + 1, indent, print_content)

pp_fn(self, indent, print_content) ==
    CASE self.kind = "Empty" -> << "[", "e", "m", "p", "t", "y", "]", "\n" >>
      [] self.kind = "Leaf"  -> pp_leaf(self, print_content)
      [] self.kind = "Node"  -> pp_children(self, 1, indent, print_content)

pp(self, print_content) == pp_fn(self, 0, print_content)

\* ---------------------------------------------------------------- remove
\* remove_fn returns [node, bubble_up, removed, panic]: node is *self after
\* the call, (bubble_up, removed) is the returned pair, and panic tells that
\* the call aborted instead of returning.
RemoveResult(node, bubble_up, removed) ==
    [node |-> node, bubble_up |-> bubble_up, removed |-> removed,
     panic |-> FALSE]

RemovePanic(node) ==
    [node |-> node, bubble_up |-> FALSE, removed |-> FALSE, panic |-> TRUE]

\* remove_child with the bug of never asking the caller to prune
remove_child_never_bubbles(self, first_char) ==
    LET removed == first_char \in DOMAIN self.children
    IN  RemoveResult([self EXCEPT !.children = MapRemove(@, first_char)],
                     FALSE, removed)

\* node.children.remove(&first_char) followed by the computation of bubble_up
remove_child(self, first_char) ==
    LET removed   == first_char \in DOMAIN self.children
        bubble_up == removed /\ ~self.is_terminal
    IN  RemoveResult([self EXCEPT !.children = MapRemove(@, first_char)],
                     bubble_up, removed)

\* remove_sub_node with the bug of ignoring remove_subtree
remove_sub_node_ignores_flag(self, first_char, remove_subtree) ==
    LET sub_node == self.children[first_char]
    IN  IF ~sub_node.is_terminal
        THEN RemoveResult(self, FALSE, FALSE)
        ELSE RemoveResult(
                 [self EXCEPT !.children[first_char].is_terminal = FALSE],
                 TRUE, TRUE)

\* rest is empty and the child under first_char is a Node (sub_node)
remove_sub_node(self, first_char, remove_subtree) ==
    LET sub_node == self.children[first_char]
    IN  IF remove_subtree
        THEN remove_child(self, first_char)
        ELSE IF ~sub_node.is_terminal
             THEN RemoveResult(self, FALSE, FALSE)
             ELSE RemoveResult(
                      [self EXCEPT !.children[first_char].is_terminal = FALSE],
                      TRUE, TRUE)

\* rest is empty: the match on the child under first_char
remove_target(self, first_char, remove_subtree) ==
    LET child == self.children[first_char]
    IN  CASE child.kind = "Leaf"  -> remove_child(self, first_char)
          [] child.kind = "Empty" -> RemovePanic(self)
          [] child.kind = "Node"  ->
                remove_sub_node(self, first_char, remove_subtree)

\* rest is not empty: what the caller does with the child's result r
remove_after_child(self, first_char, r) ==
    IF r.removed /\ is_childless(r.node) /\ to_leaf_panics(r.node)
    THEN RemovePanic([self EXCEPT !.children[first_char] = r.node])
    ELSE LET child == IF r.removed /\ is_childless(r.node)
                      THEN to_leaf(r.node)
                      ELSE r.node
             self1 == [self EXCEPT !.children[first_char] = child]
         IN  IF r.bubble_up
             THEN remove_child(self1, first_char)
             ELSE RemoveResult(self1, FALSE, r.removed)

RECURSIVE remove_fn(_, _, _)
remove_fn(self, str_left, remove_subtree) ==
    IF str_left = << >>
    THEN RemovePanic(self)          \* str_left.chars().next().unwrap()
    ELSE LET first_char == Head(str_left)
             rest       == Tail(str_left)
         IN  IF self.kind \in {"Empty", "Leaf"}
             THEN RemoveResult(self, FALSE, FALSE)
             ELSE IF first_char \notin DOMAIN self.children
                  THEN RemoveResult(self, FALSE, FALSE)
                  ELSE IF rest = << >>
                       THEN remove_target(self, first_char, remove_subtree)
                       ELSE LET r == remove_fn(self.children[first_char],
                                               rest, remove_subtree)
                            IN  IF r.panic
                                THEN RemovePanic(
                                       [self EXCEPT
                                          !.children[first_char] = r.node])
                                ELSE remove_after_child(self, first_char, r)

remove(self, str_left, remove_subtree) ==
    remove_fn(self, str_left, remove_subtree)

\* ------------------------------------------------------------ the program
\* trie     : the root TNode owned by the caller
\* prev     : the root as it was before the last call
\* op       : the last call, its arguments and what it returned
\* nops     : number of calls made so far
\* nremoves : number of remove calls made so far
\* pending  : the keys a caller that removes what it inserted has inserted
\*            and not yet passed to remove (tests::remove); empty for a
\*            caller that makes arbitrary calls
VARIABLES trie, prev, op, nops, nremoves, pending

vars == << trie, prev, op, nops, nremoves, pending >>

Call(name, key, cont, flag, result, node, prefix) ==
    [name |-> name, key |-> key, cont |-> cont, flag |-> flag,
     result |-> result, node |-> node, prefix |-> prefix]

\* let mut t = TNode::Empty;
Init ==
    /\ trie = Empty
    /\ prev = Empty
    /\ op = Call("new", << >>, None, FALSE, "Ok", None, << >>)
    /\ nops = 0
    /\ nremoves = 0
    /\ pending = {}

Running == op.result # "panic"

\* the call t.add(s, cont) and its effect on the root
DoAdd(s, cont) ==
    /\ Running
    /\ LET r == add(trie, s, cont)
       IN  /\ trie' = r.node
           /\ op' = Call("add", s, cont, FALSE,
                         IF r.ok THEN "Ok" ELSE "KeyExists", None, << >>)
    /\ prev' = trie
    /\ nops' = nops + 1
    /\ UNCHANGED nremoves

\* t.add(s, cont)
Add(s, cont) ==
    /\ nops < MaxOps
    /\ DoAdd(s, cont)
    /\ UNCHANGED pending

\* the call t.remove(s, remove_subtree) and its effect on the root
DoRemove(s, remove_subtree) ==
    /\ Running
    /\ LET r == remove(trie, s, remove_subtree)
       IN  /\ trie' = r.node
           /\ op' = Call("remove", s, None, remove_subtree,
                         IF r.panic THEN "panic"
                         ELSE IF r.removed THEN "true" ELSE "false",
                         None, << >>)
    /\ prev' = trie
    /\ nops' = nops + 1
    /\ nremoves' = nremoves + 1

\* t.remove(s, remove_subtree)
Remove(s, remove_subtree) ==
    /\ nops < MaxOps
    /\ DoRemove(s, remove_subtree)
    /\ UNCHANGED pending

\* t.find(s, must_be_terminal)
Find(s, must_be_terminal) ==
    /\ Running
    /\ nops < MaxOps
    /\ op' = Call("find", s, None, must_be_terminal, "Ok",
                  find(trie, s, must_be_terminal), << >>)
    /\ prev' = trie
    /\ nops' = nops + 1
    /\ UNCHANGED << trie, nremoves, pending >>

\* t.longest_prefix(s, must_be_terminal)
LongestPrefix(s, must_be_terminal) ==
    /\ Running
    /\ nops < MaxOps
    /\ op' = Call("longest_prefix", s, None, must_be_terminal, "Ok",
                  None, longest_prefix(trie, s, must_be_terminal))
    /\ prev' = trie
    /\ nops' = nops + 1
    /\ UNCHANGED << trie, nremoves, pending >>

Next ==
    \/ \E s \in Keys, cont \in Contents : Add(s, cont)
    \/ \E s \in Keys, remove_subtree \in BOOLEAN : Remove(s, remove_subtree)
    \/ \E s \in Keys, must_be_terminal \in BOOLEAN : Find(s, must_be_terminal)
    \/ \E s \in Keys, must_be_terminal \in BOOLEAN :
          LongestPrefix(s, must_be_terminal)

Spec == Init /\ [][Next]_vars

\* A caller that inserts a set of distinct non-empty keys into the Empty trie
\* and then calls remove on each of them, in any order and with either
\* value of remove_subtree (the shape of tests::remove).
InsertKey(s, cont) ==
    /\ nremoves = 0
    /\ s # << >>
    /\ s \notin pending
    /\ Cardinality(pending) < MaxKeys
    /\ DoAdd(s, cont)
    /\ pending' = pending \cup {s}

RemoveKey(s, remove_subtree) ==
    /\ s \in pending
    /\ DoRemove(s, remove_subtree)
    /\ pending' = pending \ {s}

NextRemoveAll ==
    \/ \E s \in Keys, cont \in Contents : InsertKey(s, cont)
    \/ \E s \in Keys, remove_subtree \in BOOLEAN : RemoveKey(s, remove_subtree)

SpecRemoveAll == Init /\ [][NextRemoveAll]_vars

\* A caller that works on the keys and payloads of tests::show_content and
\* renders the trie.
MaxShowOps == 5
MaxShowPayload == 4

ShowKeys == { << "a" >>, << "a", "b", "c" >>, << "d" >>, << "e" >> }

ShowContents == {Some(p) : p \in 1..MaxShowPayload}

\* t.pp(print_content); op.prefix holds the String returned
Pp(print_content) ==
    /\ Running
    /\ nops < MaxShowOps
    /\ op' = Call("pp", << >>, None, print_content, "Ok",
                  None, pp(trie, print_content))
    /\ prev' = trie
    /\ nops' = nops + 1
    /\ UNCHANGED << trie, nremoves, pending >>

ShowAdd(s, cont) ==
    /\ nops < MaxShowOps
    /\ DoAdd(s, cont)
    /\ UNCHANGED pending

ShowRemove(s, remove_subtree) ==
    /\ nops < MaxShowOps
    /\ DoRemove(s, remove_subtree)
    /\ UNCHANGED pending

NextShow ==
    \/ \E s \in ShowKeys, cont \in ShowContents : ShowAdd(s, cont)
    \/ \E s \in ShowKeys, remove_subtree \in BOOLEAN :
          ShowRemove(s, remove_subtree)
    \/ \E print_content \in BOOLEAN : Pp(print_content)

SpecShow == Init /\ [][NextShow]_vars

\* ------------------------------------------------- reference definitions
\* What the properties below compare the operations with: the node that a
\* key addresses, read off the tree directly.

IsPrefix(p, s) == Len(p) <= Len(s) /\ SubSeq(s, 1, Len(p)) = p

IsStrictPrefix(p, s) == IsPrefix(p, s) /\ p # s

PrefixesOf(s) == {SubSeq(s, 1, n) : n \in 0..Len(s)}

\* the node reached from t by consuming exactly k: Some(node), or None when
\* the path stops before k is consumed
RECURSIVE NodeAt(_, _)
NodeAt(t, k) ==
    IF k = << >>
    THEN Some(t)
    ELSE IF t.kind = "Node" /\ Head(k) \in DOMAIN t.children
         THEN NodeAt(t.children[Head(k)], Tail(k))
         ELSE None

\* k's node exists and is terminal
Stored(t, k) == NodeAt(t, k) # None /\ NodeAt(t, k)[1].is_terminal

PayloadAt(t, k) == NodeAt(t, k)[1].content

StoredKeys(t) == {k \in Keys : Stored(t, k)}

\* the longest element of a non-empty set of prefixes of one string
Longest(S) == CHOOSE p \in S : \A r \in S : Len(r) <= Len(p)

LongestStoredPrefix(t, q) ==
    LET S == {p \in PrefixesOf(q) : Stored(t, p)}
    IN  IF S = {} THEN << >> ELSE Longest(S)

LongestPath(t, q) == Longest({p \in PrefixesOf(q) : NodeAt(t, p) # None})

\* some Node (Branch) of the tree has no children
RECURSIVE HasChildlessNode(_)
HasChildlessNode(t) ==
    /\ t.kind = "Node"
    /\ \/ DOMAIN t.children = {}
       \/ \E c \in DOMAIN t.children : HasChildlessNode(t.children[c])

\* the tree before the last call was built by add calls alone
PrevBuiltByAdds == nremoves = 0 \/ (op.name = "remove" /\ nremoves = 1)

\* -------------------------------------------------------------- properties

\* C1: find(k, true) returns a node if and only if the node reached by
\* consuming exactly k exists and is terminal, and the node it returns is
\* that node, never an ancestor's.
C1_FindExactTerminal ==
    (op.name = "find" /\ op.flag) =>
        /\ op.node # None <=> Stored(trie, op.key)
        /\ op.node # None => op.node = NodeAt(trie, op.key)

\* C2: whenever add(k, p) returns Ok, a find(k, true) on the resulting trie
\* returns a node, and that node's content is p.
C2_InsertLookupRoundTrip ==
    (op.name = "add" /\ op.result = "Ok") =>
        LET f == find(trie, op.key, TRUE)
        IN  f # None /\ f[1].content = op.cont

\* an add of a key of two characters or more, with a payload, into a trie
\* that already holds a key, succeeded and the key is found with the payload
C2_Witness ==
    /\ op.name = "add" /\ op.result = "Ok"
    /\ Len(op.key) >= 2 /\ op.cont # None
    /\ StoredKeys(prev) # {}
    /\ find(trie, op.key, TRUE) # None
    /\ find(trie, op.key, TRUE)[1].content = op.cont

C4_RemoveKeepsExtensions ==
    (op.name = "remove" /\ ~op.flag /\ op.result = "true" /\ PrevBuiltByAdds) =>
        /\ ~contains_key(trie, op.key)
        /\ \A k2 \in StoredKeys(prev) :
              IsStrictPrefix(op.key, k2) =>
                 /\ contains_key(trie, k2)
                 /\ find(trie, k2, TRUE)[1].content = PayloadAt(prev, k2)

\* C5: after remove(k, rs) returned true, every stored key that does not
\* have k as a prefix is still found with its payload, and every ancestor of
\* k that had another child is still in the tree.
C5_RemoveTouchesOnlyTarget ==
    (op.name = "remove" /\ op.result = "true") =>
        /\ \A k2 \in StoredKeys(prev) :
              ~IsPrefix(op.key, k2) =>
                 /\ find(trie, k2, TRUE) # None
                 /\ find(trie, k2, TRUE)[1].content = PayloadAt(prev, k2)
        /\ \A a \in PrefixesOf(op.key) :
              (a # op.key /\ Cardinality(DOMAIN NodeAt(prev, a)[1].children) > 1)
                 => NodeAt(trie, a) # None

\* C6: after remove(k, true) returned true, contains_key(k2) is false for
\* every key k2 that has k as a prefix, k included.
C6_SubtreeRemoved ==
    (op.name = "remove" /\ op.flag /\ op.result = "true") =>
        \A k2 \in Keys : IsPrefix(op.key, k2) => ~contains_key(trie, k2)

\* a subtree removal took away a stored key together with a stored extension
C6_Witness ==
    /\ op.name = "remove" /\ op.flag /\ op.result = "true"
    /\ PrevBuiltByAdds
    /\ Stored(prev, op.key)
    /\ \E k2 \in StoredKeys(prev) : IsStrictPrefix(op.key, k2)
    /\ \A k2 \in StoredKeys(prev) : IsPrefix(op.key, k2) => ~contains_key(trie, k2)

\* C7: after any sequence of add and remove calls, no Node (Branch) with
\* zero children exists anywhere in the tree, the root included.
C7_NoDanglingBranch ==
    (op.result # "panic") => ~HasChildlessNode(trie)

\* C8: on a trie built by add calls, longest_prefix(q, true) is the longest
\* stored key that is a prefix of q, and empty if there is none.
C8_LongestTerminalPrefix ==
    (op.name = "longest_prefix" /\ op.flag /\ PrevBuiltByAdds) =>
        op.prefix = LongestStoredPrefix(trie, op.key)

\* C9: the string returned by longest_prefix(q, true) is empty or a prefix
\* of q whose node is terminal.
C9_TerminalFallback ==
    (op.name = "longest_prefix" /\ op.flag) =>
        \/ op.prefix = << >>
        \/ IsPrefix(op.prefix, op.key) /\ Stored(trie, op.prefix)

\* C10: on a trie built by add calls, longest_prefix(q, false) is the
\* longest prefix of q that spells an existing path from the root.
C10_LongestPath ==
    (op.name = "longest_prefix" /\ ~op.flag /\ PrevBuiltByAdds) =>
        op.prefix = LongestPath(trie, op.key)

\* C11: remove returns false when the key's path does not exist, and
\* remove(k, false) returns false when k's node is a non-terminal Node
\* (Branch); whenever remove returns false the trie is what it was before.
C11_NotFoundNoOp ==
    (op.name = "remove") =>
        LET n == NodeAt(prev, op.key)
        IN  /\ n = None => op.result = "false"
            /\ (~op.flag /\ n # None /\ n[1].kind = "Node" /\ ~n[1].is_terminal)
                  => op.result = "false"
            /\ op.result = "false" => trie = prev

\* C12: remove with the empty key completes and returns a boolean.
C12_EmptyKeyRemoveReturns ==
    (op.name = "remove" /\ op.key = << >>) => op.result \in {"true", "false"}

\* some node of the tree is not terminal and holds a payload
RECURSIVE HasPayloadWithoutKey(_)
HasPayloadWithoutKey(t) ==
    \/ t.kind # "Empty" /\ ~t.is_terminal /\ t.content # None
    \/ \E c \in DOMAIN t.children : HasPayloadWithoutKey(t.children[c])

\* C15: every node whose terminal flag is false has payload None, and
\* find(k, false) exposes no payload for a key that is not stored.
C15_NonTerminalHasNoPayload ==
    /\ ~HasPayloadWithoutKey(trie)
    /\ (op.name = "find" /\ ~op.flag /\ ~Stored(trie, op.key) /\ op.node # None)
          => op.node[1].content = None

\* C16: a successful add(k, p) keeps every key that was contained, with its
\* payload, makes no key other than k contained, and keeps the payload and
\* the terminal flag of every node on the way to k.
C16_AddChangesOnlyKey ==
    (op.name = "add" /\ op.result = "Ok") =>
        /\ \A k2 \in Keys :
              contains_key(prev, k2) =>
                 /\ find(trie, k2, TRUE) # None
                 /\ find(trie, k2, TRUE)[1].content
                       = find(prev, k2, TRUE)[1].content
        /\ \A k2 \in Keys \ {op.key} :
              ~contains_key(prev, k2) => ~contains_key(trie, k2)
        /\ \A a \in PrefixesOf(op.key) \ {op.key} :
              NodeAt(prev, a) # None =>
                 /\ NodeAt(trie, a)[1].content = NodeAt(prev, a)[1].content
                 /\ NodeAt(trie, a)[1].is_terminal
                       = NodeAt(prev, a)[1].is_terminal

\* some child slot of some Node of the tree holds an Empty
RECURSIVE HasEmptyChild(_)
HasEmptyChild(t) ==
    \E c \in DOMAIN t.children :
        t.children[c].kind = "Empty" \/ HasEmptyChild(t.children[c])

\* C17: after every call no child slot of any Node holds an Empty, the root
\* is Empty only if it was Empty before the call, the only abort is the one
\* of remove on the empty key (so the abort on an Empty child is never
\* taken), and find never returns an Empty node (so content() does not
\* abort on its result).
C17_NoEmptyChild ==
    /\ ~HasEmptyChild(trie)
    /\ trie.kind = "Empty" => prev.kind = "Empty"
    /\ op.result = "panic" => (op.name = "remove" /\ op.key = << >>)
    /\ (op.name = "find" /\ op.node # None) => op.node[1].kind # "Empty"

\* a remove returned true and left a child of the root that was a Node
\* before as a Leaf, while the tree has no Empty child
C17_Witness ==
    /\ op.name = "remove" /\ op.result = "true"
    /\ \E c \in DOMAIN trie.children :
          /\ prev.children[c].kind = "Node"
          /\ trie.children[c].kind = "Leaf"
    /\ ~HasEmptyChild(trie)

\* C13: once remove has been called on every key that was inserted (a set
\* of non-empty keys, any order of removal, either remove_subtree value),
\* is_empty() is true: the root holds no payload and has no children, and
\* no key is found any more.
C13_RemoveAllEmpties ==
    (nremoves > 0 /\ pending = {}) =>
        /\ is_empty(trie)
        /\ trie.content = None
        /\ DOMAIN trie.children = {}
        /\ \A k \in Keys : ~contains_key(trie, k)

\* two keys or more were inserted and each of them passed to remove, the
\* last remove returned true, and the trie is empty
C13_Witness ==
    /\ nremoves >= 2 /\ nops = 2 * nremoves
    /\ pending = {}
    /\ op.name = "remove" /\ op.result = "true"
    /\ Len(op.key) >= 2
    /\ is_empty(trie)

\* the String w occurs in the String text
Occurs(w, text) ==
    \E i \in 0..(Len(text) - Len(w)) : SubSeq(text, i + 1, i + Len(w)) = w

\* number of occurrences of the character ch in the String text
CountChar(ch, text) == Cardinality({i \in 1..Len(text) : text[i] = ch})

\* number of Leaf nodes of the tree that hold a payload
RECURSIVE SumOver(_, _)
RECURSIVE LeafPayloads(_)
SumOver(S, t) ==
    IF S = {}
    THEN 0
    ELSE LET c == CHOOSE x \in S : TRUE
         IN  LeafPayloads(t.children[c]) + SumOver(S \ {c}, t)

LeafPayloads(t) ==
    IF t.kind = "Leaf"
    THEN (IF t.content # None THEN 1 ELSE 0)
    ELSE SumOver(DOMAIN t.children, t)

\* how a payload is to appear right after the last character of its key
ShownAfter(k, content) ==
    << k[Len(k)], " ", " ", "(" >> \o DisplayInt(content[1]) \o << ")" >>

\* the trie holds a->1, abc->2, d->3, e->4, inserted into the Empty trie
ShowScenario ==
    /\ nremoves = 0
    /\ Stored(trie, << "a" >>) /\ PayloadAt(trie, << "a" >>) = Some(1)
    /\ Stored(trie, << "a", "b", "c" >>)
    /\ PayloadAt(trie, << "a", "b", "c" >>) = Some(2)
    /\ Stored(trie, << "d" >>) /\ PayloadAt(trie, << "d" >>) = Some(3)
    /\ Stored(trie, << "e" >>) /\ PayloadAt(trie, << "e" >>) = Some(4)

\* "a  (1)\n bc  (2)\nd  (3)\ne  (4)\n"
ShowAllPayloads ==
    << "a", " ", " ", "(", "1", ")", "\n",
       " ", "b", "c", " ", " ", "(", "2", ")", "\n",
       "d", " ", " ", "(", "3", ")", "\n",
       "e", " ", " ", "(", "4", ")", "\n" >>

\* "a\n bc  (2)\nd  (3)\ne  (4)\n", the string tests::show_content expects
ShowLeafPayloads ==
    << "a", "\n",
       " ", "b", "c", " ", " ", "(", "2", ")", "\n",
       "d", " ", " ", "(", "3", ")", "\n",
       "e", " ", " ", "(", "4", ")", "\n" >>

\* C14 as stated: pp(true) shows the payload of every stored key that holds
\* one, two spaces and "(<payload>)" right after the key's last character,
\* at a Leaf or at a Node with children; for a->1, abc->2, d->3, e->4 it
\* returns "a  (1)\n bc  (2)\nd  (3)\ne  (4)\n".
C14_RenderShowsEveryPayload ==
    (op.name = "pp" /\ op.flag) =>
        /\ \A k \in ShowKeys :
              (Stored(trie, k) /\ PayloadAt(trie, k) # None)
                 => Occurs(ShownAfter(k, PayloadAt(trie, k)), op.prefix)
        /\ ShowScenario => op.prefix = ShowAllPayloads

\* C14 as amended: pp(true) shows the payload of every stored key whose
\* node is a Leaf, two spaces and "(<payload>)" right after the key's last
\* character, and shows no other payload (a Node with children does not
\* render its own); for a->1, abc->2, d->3, e->4 it returns
\* "a\n bc  (2)\nd  (3)\ne  (4)\n".
C14_RenderShowsLeafPayloads ==
    (op.name = "pp" /\ op.flag) =>
        /\ \A k \in ShowKeys :
              (Stored(trie, k) /\ PayloadAt(trie, k) # None
                 /\ NodeAt(trie, k)[1].kind = "Leaf")
                 => Occurs(ShownAfter(k, PayloadAt(trie, k)), op.prefix)
        /\ CountChar("(", op.prefix) = LeafPayloads(trie)
        /\ ShowScenario => op.prefix = ShowLeafPayloads

\* pp(true) was called on the trie holding a->1, abc->2, d->3, e->4 and
\* returned the string of tests::show_content
C14_Witness ==
    /\ op.name = "pp" /\ op.flag
    /\ ShowScenario
    /\ NodeAt(trie, << "a" >>)[1].kind = "Node"
    /\ op.prefix = ShowLeafPayloads

====
